---- MODULE Spec2Model ----
(***************************************************************************)
(* A model of the svg scene-graph builder: Point arithmetic, the Transform *)
(* hierarchy, GroupedDrawable, the SimpleItem shapes, Path and its         *)
(* segments, and the ElementTree nodes their element() methods build.      *)
(*                                                                         *)
(* Python objects live in `heap`, a function from object names to records  *)
(* whose fields carry the attribute names of the source.  Each method is   *)
(* an operator that computes what the method computes; each call is an     *)
(* action that applies it, records the call in `last` and its return value *)
(* in `out`.                                                               *)
(***************************************************************************)
EXTENDS Integers, Sequences, FiniteSets, TLC

VARIABLES
    heap,    \* the objects: name -> record of the object's attributes
    calls,   \* the mutating calls made on the groups so far, in call order
    last,    \* the latest call: op, target, arguments, and the heap before it
    out,     \* what the latest call returned or raised
    prev     \* what the call before it returned, when it was the same query

vars == <<heap, calls, last, out, prev>>

(***************************************************************************)
(* Bounds of the model.                                                    *)
(***************************************************************************)
\* longest transformation list a group is driven to
MaxTransforms == 3
\* longest log of add()/empty() calls on the groups
MaxCalls == 3
\* anchors of the shapes stay within [-MaxCoord, MaxCoord] on both axes
MaxCoord == 2

(***************************************************************************)
(* Numbers.  A Python number is [h, fl]: h is twice its value (so halves   *)
(* such as 0.5*width are exact), fl says whether it is a float.  Ints are  *)
(* whole, so an int has an even h.  On this grid binary floating point is  *)
(* exact, so + - * are the exact operations.                               *)
(***************************************************************************)
Int_(k) == [h |-> 2 * k, fl |-> FALSE]

Float_(h) == [h |-> h, fl |-> TRUE]

Abs(n) == IF n < 0 THEN -n ELSE n

NumAdd(a, b) == [h |-> a.h + b.h, fl |-> a.fl \/ b.fl]

NumSub(a, b) == [h |-> a.h - b.h, fl |-> a.fl \/ b.fl]

\* a * b; the product of two values on the half grid is (a.h * b.h) / 2 halves
NumMul(a, b) == [h |-> (a.h * b.h) \div 2, fl |-> a.fl \/ b.fl]

\* Python's ==  on numbers compares values: 1 == 1.0
NumEq(a, b) == a.h = b.h

Sign(h) == IF h < 0 THEN "-" ELSE ""

\* str(a): an int prints its digits, a float always prints a fraction
PyStr(a) ==
    IF ~a.fl THEN ToString(a.h \div 2)
    ELSE Sign(a.h) \o ToString(Abs(a.h) \div 2)
                   \o (IF a.h % 2 = 0 THEN ".0" ELSE ".5")

\* '%f' % a: six decimals, whether a is an int or a float
FmtF(a) ==
    Sign(a.h) \o ToString(Abs(a.h) \div 2)
              \o (IF a.h % 2 = 0 THEN ".000000" ELSE ".500000")

\* '%d' % a: truncation toward zero
FmtD(a) ==
    LET t == Abs(a.h) \div 2
    IN  IF a.h < 0 /\ t > 0 THEN "-" \o ToString(t) ELSE ToString(t)

(***************************************************************************)
(* Point (svg/point.py): a value with two coordinates; add, subtract and   *)
(* scale return new Points, format() is "x,y".                             *)
(***************************************************************************)
Point(x, y) == [x |-> x, y |-> y]

PointAdd(p, q) == Point(NumAdd(p.x, q.x), NumAdd(p.y, q.y))

PointSub(p, q) == Point(NumSub(p.x, q.x), NumSub(p.y, q.y))

PointScale(p, f) == Point(NumMul(p.x, f), NumMul(p.y, f))

PointFormat(p) == PyStr(p.x) \o "," \o PyStr(p.y)

PointEq(p, q) == NumEq(p.x, q.x) /\ NumEq(p.y, q.y)

PointCopy(p) == Point(p.x, p.y)

\* Point(a, b) with int coordinates
P(a, b) == Point(Int_(a), Int_(b))

Origin == P(0, 0)

(***************************************************************************)
(* Transform hierarchy (transform.py).                                     *)
(***************************************************************************)
Translation(vector) == [cls |-> "Translation", vector |-> vector]

Rotation(angle, origin) == [cls |-> "Rotation", angle |-> angle, origin |-> origin]

TranslationText(t) ==
    "translate(" \o FmtF(t.vector.x) \o "," \o FmtF(t.vector.y) \o ")"

RotationText(t) ==
    "rotate(" \o FmtF(t.angle) \o "," \o FmtF(t.origin.x) \o ","
              \o FmtF(t.origin.y) \o ")"

TransformText(t) ==
    IF t.cls = "Translation" THEN TranslationText(t) ELSE RotationText(t)

\* sin and cos of a whole number of quarter turns, in degrees
SinDeg(d) ==
    LET q == (d \div 90) % 4
    IN  Float_(CASE q = 0 -> 0 [] q = 1 -> 2 [] q = 2 -> 0 [] OTHER -> -2)

CosDeg(d) ==
    LET q == (d \div 90) % 4
    IN  Float_(CASE q = 0 -> 2 [] q = 1 -> 0 [] q = 2 -> -2 [] OTHER -> 0)

TranslationTransform(t, point) == PointAdd(point, t.vector)

\* the origin field is not read: the point turns about (0,0) by -angle
RotationTransform(t, point) ==
    LET p == point
        s == SinDeg(-(t.angle.h \div 2))
        c == CosDeg(-(t.angle.h \div 2))
    IN  Point(NumAdd(NumMul(c, p.x), NumMul(s, p.y)),
              NumSub(NumMul(c, p.y), NumMul(s, p.x)))

TransformApply(t, point) ==
    IF t.cls = "Translation" THEN TranslationTransform(t, point)
    ELSE RotationTransform(t, point)

(***************************************************************************)
(* Values a call returns or raises, and ElementTree nodes.                 *)
(***************************************************************************)
None == [kind |-> "None"]

Raise(exc) == [kind |-> "raise", exc |-> exc]

Ref(id) == [kind |-> "ref", id |-> id]

Str(s) == [kind |-> "str", s |-> s]

PointValue(p) == [kind |-> "Point", p |-> p]

IsRaise(v) == "kind" \in DOMAIN v /\ v.kind = "raise"

EmptyDict == [k \in {} |-> ""]

DictSet(d, k, v) == [x \in DOMAIN d \cup {k} |-> IF x = k THEN v ELSE d[x]]

\* {**a, **b}
DictMerge(a, b) ==
    [x \in DOMAIN a \cup DOMAIN b |-> IF x \in DOMAIN b THEN b[x] ELSE a[x]]

\* Element(tag, attrib): a node without children
Element(tag, attrib) ==
    [kind |-> "Element", tag |-> tag, attrib |-> attrib, children |-> <<>>,
     text |-> "None"]

\* Element(tag, k1=v1, ..., **extra): a keyword given twice is a TypeError
ElementKw(tag, fixed, extra) ==
    IF DOMAIN fixed \cap DOMAIN extra # {} THEN Raise("TypeError")
    ELSE Element(tag, DictMerge(fixed, extra))

ElementSet(elm, k, v) == [elm EXCEPT !.attrib = DictSet(@, k, v)]

ElementAppend(elm, child) == [elm EXCEPT !.children = Append(@, child)]

RECURSIVE Join(_, _)
\* sep.join(strs)
Join(sep, strs) ==
    IF strs = <<>> THEN ""
    ELSE IF Len(strs) = 1 THEN strs[1]
    ELSE strs[1] \o sep \o Join(sep, Tail(strs))

\* Python truthiness of an optional string (None and '' are false)
Truthy(s) == s # "None" /\ s # ""

(***************************************************************************)
(* GroupedDrawable (svg.py): the transformation list and the group node.   *)
(***************************************************************************)
GroupedDrawable(opacity) ==
    [cls |-> "GroupedDrawable", _children |-> <<>>, transformations |-> <<>>,
     opacity |-> opacity]

transformation(g) ==
    Join(" ", [i \in 1..Len(g.transformations) |-> TransformText(g.transformations[i])])

\* a container that writes the opacity attribute whatever its value
container_always_opacity(g) ==
    LET group == Element("g", EmptyDict)
        g1 == IF Len(g.transformations) > 0
              THEN ElementSet(group, "transform", transformation(g))
              ELSE group
    IN  ElementSet(g1, "opacity", PyStr(g.opacity))

container(g) ==
    LET group == Element("g", EmptyDict)
        g1 == IF Len(g.transformations) > 0
              THEN ElementSet(group, "transform", transformation(g))
              ELSE group
    IN  IF ~NumEq(g.opacity, Int_(100))
        THEN ElementSet(g1, "opacity", PyStr(g.opacity))
        ELSE g1

rotate(g, theta, origin) ==
    [g EXCEPT !.transformations = Append(@, Rotation(theta, origin))]

\* a move_to that replaces the list instead of extending it
group_move_to_replacing(g, point) ==
    [g EXCEPT !.transformations = <<Translation(point)>>]

group_move_to(g, point) ==
    [g EXCEPT !.transformations = Append(@, Translation(point))]

RECURSIVE ApplyFrom(_, _, _)
\* the loop of location_of from index i on, p being the point so far
ApplyFrom(ts, i, p) ==
    IF i > Len(ts) THEN p ELSE ApplyFrom(ts, i + 1, TransformApply(ts[i], p))

RECURSIVE ApplyBack(_, _, _)
ApplyBack(ts, i, p) ==
    IF i < 1 THEN p ELSE ApplyBack(ts, i - 1, TransformApply(ts[i], p))

\* a location_of that walks the list from its end
location_of_backwards(g, point) ==
    ApplyBack(g.transformations, Len(g.transformations), PointCopy(point))

location_of(g, point) == ApplyFrom(g.transformations, 1, PointCopy(point))

\* an add that keeps one entry per item
add_unique(g, item) ==
    IF \E i \in 1..Len(g._children) : g._children[i] = item THEN g
    ELSE [g EXCEPT !._children = Append(@, item)]

add(g, item) == [g EXCEPT !._children = Append(@, item)]

empty(g) == [g EXCEPT !._children = <<>>]

children(g) == g._children

(***************************************************************************)
(* SimpleItem and the shape primitives (svg.py).                           *)
(***************************************************************************)
move_to(item, point) == [item EXCEPT !.top_left = point]

move_by(item, point) == [item EXCEPT !.top_left = PointAdd(@, point)]

Rectangle(width, height, stroke_width, stroke, stroke_dasharray, rounded, attributes) ==
    [cls |-> "Rectangle", top_left |-> P(0, 0), width |-> width, height |-> height,
     stroke_width |-> stroke_width, stroke_dasharray |-> stroke_dasharray,
     stroke |-> stroke, rounded |-> rounded, _attributes |-> attributes]

RectangleElement(r) ==
    LET style0 == "stroke-width:" \o FmtD(r.stroke_width) \o ";stroke:" \o r.stroke \o ";"
        style == IF Truthy(r.stroke_dasharray)
                 THEN style0 \o "stroke-dasharray: " \o r.stroke_dasharray \o ";"
                 ELSE style0
        rect == ElementKw("rect",
                          [x |-> PyStr(r.top_left.x), y |-> PyStr(r.top_left.y),
                           width |-> PyStr(r.width), height |-> PyStr(r.height),
                           style |-> style],
                          r._attributes)
    IN  IF IsRaise(rect) THEN rect
        ELSE IF r.rounded THEN ElementSet(ElementSet(rect, "rx", "4"), "ry", "4")
        ELSE rect

HalfF == Float_(1)

\* a set_center that puts the corner, not the centroid, at (x, y)
set_center_corner(r, x, y) == move_to(r, Point(x, y))

set_center(r, x, y) ==
    move_to(r, Point(NumSub(x, NumMul(HalfF, r.width)),
                     NumSub(y, NumMul(HalfF, r.height))))

RectangleCenter(r) ==
    PointAdd(r.top_left, PointScale(Point(r.width, r.height), HalfF))

set_fill(r, color) == [r EXCEPT !._attributes = DictSet(@, "fill", color)]

Line(start, end, color, stroke_width, linecap, stroke_dasharray, attributes) ==
    [cls |-> "Line", top_left |-> start, vector |-> PointSub(end, start),
     color |-> color, stroke_width |-> stroke_width, linecap |-> linecap,
     _attributes |-> attributes, stroke_dasharray |-> stroke_dasharray]

\* a set_end that stores the end point as the displacement
set_end_absolute(l, point) == [l EXCEPT !.vector = point]

set_end(l, point) == [l EXCEPT !.vector = PointSub(point, l.top_left)]

LineEnd(l) == PointAdd(l.top_left, l.vector)

LineElement(l) ==
    LET style0 == "stroke:" \o l.color \o ";stroke-width:" \o FmtD(l.stroke_width)
                  \o ";stroke-linecap:" \o l.linecap \o ";"
        style == IF Truthy(l.stroke_dasharray)
                 THEN style0 \o "stroke-dasharray: " \o l.stroke_dasharray \o ";"
                 ELSE style0
    IN  ElementKw("line",
                  [x1 |-> PyStr(l.top_left.x), y1 |-> PyStr(l.top_left.y),
                   x2 |-> PyStr(LineEnd(l).x), y2 |-> PyStr(LineEnd(l).y),
                   style |-> style],
                  l._attributes)

Text(text, start, color, anchor, size, font_weight, font_family, attributes) ==
    [cls |-> "Text", top_left |-> start, text |-> text, color |-> color,
     anchor |-> anchor, size |-> size, font_weight |-> font_weight,
     font_family |-> font_family, _attributes |-> attributes, angle |-> Int_(0)]

\* _attributes is stored by the constructor and not read here
TextElement(t) ==
    LET style0 == "fill:" \o t.color \o ";text-anchor:" \o t.anchor \o ";font-size: "
                  \o FmtD(t.size) \o "pt;font-weight:" \o t.font_weight
        style == IF t.font_family # "None"
                 THEN style0 \o ";font-family:" \o t.font_family
                 ELSE style0
        text0 == Element("text", [x |-> PyStr(t.top_left.x), y |-> PyStr(t.top_left.y),
                                  style |-> style])
        text == [text0 EXCEPT !.text = t.text]
    IN  IF ~NumEq(t.angle, Int_(0))
        THEN ElementSet(text, "transform",
                        "rotate(" \o FmtD(t.angle) \o "," \o FmtD(t.top_left.x) \o ","
                        \o FmtD(t.top_left.y) \o ")")
        ELSE text

text_rotate(t, angle) == [t EXCEPT !.angle = angle]

Circle(start, radius, attributes) ==
    [cls |-> "Circle", top_left |-> start, radius |-> radius, _attributes |-> attributes]

CircleCenter(c) == PointAdd(c.top_left, Point(c.radius, c.radius))

CircleElement(c) ==
    ElementKw("circle",
              [cx |-> PyStr(CircleCenter(c).x), cy |-> PyStr(CircleCenter(c).y),
               r |-> PyStr(c.radius)],
              c._attributes)

move_center_to(c, point) == move_to(c, PointSub(point, Point(c.radius, c.radius)))

Image(start, file_name, width, height) ==
    [cls |-> "Image", top_left |-> start, height |-> height, width |-> width,
     file_name |-> file_name]

ImageElement(i) ==
    ElementKw("image", "xlink:href" :> i.file_name,
              [x |-> PyStr(i.top_left.x), y |-> PyStr(i.top_left.y),
               width |-> PyStr(i.width), height |-> PyStr(i.height)])

Dimple(center, radius) == [cls |-> "Dimple", top_left |-> center, radius |-> radius]

DimpleElement(d) ==
    Element("path",
            [d |-> "M " \o FmtD(d.top_left.x) \o " "
                   \o FmtD(NumSub(d.top_left.y, d.radius)) \o " A " \o FmtD(d.radius)
                   \o " " \o FmtD(d.radius) \o " 0 1 1 " \o FmtD(d.top_left.x) \o " "
                   \o FmtD(NumAdd(d.top_left.y, d.radius))])

(***************************************************************************)
(* Path and its segments (path.py).                                        *)
(***************************************************************************)
RelativeVector(x, y) == [cls |-> "RelativeVector", point |-> Point(x, y)]

Arc(x, y, xrot, large_arc, sweep, endx, endy) ==
    [cls |-> "Arc", _spec |-> <<x, y, xrot, large_arc, sweep, endx, endy>>]

\* the base class: instantiable, because __metaclass__ is a plain class
\* attribute for the Python 3 this code runs on
PathSegment == [cls |-> "PathSegment"]

RelativeVectorSpecification(seg) == "l " \o PointFormat(seg.point) \o " "

ArcSpecification(seg) ==
    "a " \o FmtF(seg._spec[1]) \o " " \o FmtF(seg._spec[2]) \o ", "
         \o FmtF(seg._spec[3]) \o ", " \o FmtD(seg._spec[4]) \o ", "
         \o FmtD(seg._spec[5]) \o ", " \o FmtF(seg._spec[6]) \o ", "
         \o FmtF(seg._spec[7])

\* segment.specification(): the base class's body is `pass`, which returns None
specification(seg) ==
    CASE seg.cls = "RelativeVector" -> Str(RelativeVectorSpecification(seg))
      [] seg.cls = "Arc" -> Str(ArcSpecification(seg))
      [] OTHER -> None

RelativeVectorScale(seg, scale) == [seg EXCEPT !.point = PointScale(@, scale)]

Path(start, segments, attributes) ==
    [cls |-> "Path", top_left |-> start, segments |-> segments, closed |-> TRUE,
     _attributes |-> attributes]

\* an element() that closes every path
PathElementAlwaysClosed(pa) ==
    LET p == Element("path", pa._attributes)
        specs == [i \in 1..Len(pa.segments) |-> specification(pa.segments[i])]
        d == "M " \o PointFormat(pa.top_left) \o " "
             \o Join(" ", [i \in 1..Len(specs) |-> specs[i].s]) \o " Z"
    IN  ElementSet(p, "d", d)

PathElement(pa) ==
    LET p == Element("path", pa._attributes)
        specs == [i \in 1..Len(pa.segments) |-> specification(pa.segments[i])]
        d0 == "M " \o PointFormat(pa.top_left) \o " "
    IN  IF \E i \in 1..Len(specs) : specs[i].kind # "str"
        THEN Raise("TypeError")   \* ' '.join of a None
        ELSE LET d1 == d0 \o Join(" ", [i \in 1..Len(specs) |-> specs[i].s])
                 d == IF pa.closed THEN d1 \o " Z" ELSE d1
                 p1 == ElementSet(p, "d", d)
             IN  IF "width" \in DOMAIN pa._attributes
                 THEN ElementSet(p1, "stroke-width", pa._attributes["width"])
                 ELSE p1

(***************************************************************************)
(* Classes and element() dispatch.                                         *)
(***************************************************************************)
\* Drawable derives from ABC; PathSegment only sets a class attribute
\* named __metaclass__, so its metaclass stays type
Metaclass(cls) ==
    IF cls \in {"PathSegment", "RelativeVector", "Arc"} THEN "type" ELSE "ABCMeta"

\* the @abstractmethod names a class has not overridden
AbstractMethods(cls) ==
    CASE cls = "Drawable" -> {"element"}
      [] cls = "CompositeItem" -> {"container"}
      [] cls = "SimpleItem" -> {"element"}
      [] cls = "PathSegment" -> {"specification"}
      [] OTHER -> {}

\* ABCMeta refuses to instantiate a class that has abstract methods left
CanInstantiate(cls) == ~(Metaclass(cls) = "ABCMeta" /\ AbstractMethods(cls) # {})

RECURSIVE element(_, _)
RECURSIVE AppendChildren(_, _, _, _)
\* the loop of CompositeItem.element from child i on; a raise leaves the loop
AppendChildren(h, elm, ids, i) ==
    IF i > Len(ids) THEN elm
    ELSE LET c == element(h, ids[i])
         IN  IF IsRaise(c) THEN c
             ELSE AppendChildren(h, ElementAppend(elm, c), ids, i + 1)

CompositeItemElement(h, g) == AppendChildren(h, container(g), g._children, 1)

\* obj.element() for the object named id in heap h
element(h, id) ==
    LET o == h[id]
    IN  CASE o.cls = "GroupedDrawable" -> CompositeItemElement(h, o)
          [] o.cls = "Rectangle" -> RectangleElement(o)
          [] o.cls = "Line" -> LineElement(o)
          [] o.cls = "Text" -> TextElement(o)
          [] o.cls = "Circle" -> CircleElement(o)
          [] o.cls = "Image" -> ImageElement(o)
          [] o.cls = "Dimple" -> DimpleElement(o)
          [] o.cls = "Path" -> PathElement(o)
          [] OTHER -> Raise("AttributeError")   \* a segment has no element()

RECURSIVE Holds(_, _, _)
\* whether the object a is b or holds b among its descendants
Holds(h, a, b) ==
    \/ a = b
    \/ /\ h[a].cls = "GroupedDrawable"
       /\ \E i \in 1..Len(h[a]._children) : Holds(h, h[a]._children[i], b)

IsGroup(id) == id \in DOMAIN heap /\ heap[id].cls = "GroupedDrawable"

IsA(id, cls) == id \in DOMAIN heap /\ heap[id].cls = cls

IsSimpleItem(id) ==
    /\ id \in DOMAIN heap
    /\ heap[id].cls \in {"Rectangle", "Line", "Text", "Circle", "Image", "Dimple", "Path"}

(***************************************************************************)
(* Calls.  A mutating call replaces the target's record; a query leaves    *)
(* the heap alone.  `last` keeps the heap the call started from.           *)
(***************************************************************************)
SameCall(a, b) == [a EXCEPT !.before = <<>>] = [b EXCEPT !.before = <<>>]

Mutate(call, obj, result, logged) ==
    /\ heap' = [heap EXCEPT ![call.target] = obj]
    /\ last' = call
    /\ out' = result
    /\ prev' = None
    /\ calls' = IF logged THEN Append(calls, [call EXCEPT !.before = <<>>]) ELSE calls

Query(call, result) ==
    /\ heap' = heap
    /\ last' = call
    /\ out' = result
    /\ prev' = IF SameCall(last, call) THEN out ELSE None
    /\ calls' = calls

(***************************************************************************)
(* GroupedDrawable calls.                                                  *)
(***************************************************************************)
Angles == {Int_(90), Float_(-180)}

Origins == {Origin, P(1, 2)}

Vectors == {P(5, 5), Point(Float_(-1), Int_(0))}

Rotate(id, theta, origin) ==
    /\ IsGroup(id)
    /\ Len(heap[id].transformations) < MaxTransforms
    /\ Mutate([op |-> "rotate", target |-> id, args |-> <<theta, origin>>, before |-> heap],
              rotate(heap[id], theta, origin), Ref(id), TRUE)

GroupMoveTo(id, point) ==
    /\ IsGroup(id)
    /\ Len(heap[id].transformations) < MaxTransforms
    /\ Mutate([op |-> "move_to", target |-> id, args |-> <<point>>, before |-> heap],
              group_move_to(heap[id], point), Ref(id), TRUE)

\* args[1] is the caller's point as the call leaves it, args[2] as it was passed
LocationOf(id, point) ==
    /\ IsGroup(id)
    /\ Query([op |-> "location_of", target |-> id, args |-> <<point, point>>, before |-> heap],
             PointValue(location_of(heap[id], point)))

Container(id) ==
    /\ IsGroup(id)
    /\ Query([op |-> "container", target |-> id, args |-> <<>>, before |-> heap],
             container(heap[id]))

\* an element() that hands its children over to the node it returns
ElementCallConsuming(id) ==
    /\ id \in DOMAIN heap
    /\ heap' = IF heap[id].cls = "GroupedDrawable"
               THEN [heap EXCEPT ![id] = empty(@)] ELSE heap
    /\ last' = [op |-> "element", target |-> id, args |-> <<>>, before |-> heap]
    /\ out' = element(heap, id)
    /\ prev' = IF SameCall(last, last') THEN out ELSE None
    /\ calls' = calls

ElementCall(id) ==
    /\ id \in DOMAIN heap
    /\ Query([op |-> "element", target |-> id, args |-> <<>>, before |-> heap],
             element(heap, id))

NoCall == [op |-> "__init__", target |-> "g", args |-> <<>>, before |-> <<>>]

Opacities == {Int_(100), Int_(50), Int_(0)}

InitTransform ==
    /\ \E o \in Opacities : heap = [g |-> GroupedDrawable(o)]
    /\ calls = <<>>
    /\ last = NoCall
    /\ out = Ref("g")
    /\ prev = None

NextTransform ==
    \/ \E theta \in Angles, origin \in Origins : Rotate("g", theta, origin)
    \/ \E v \in Vectors : GroupMoveTo("g", v)
    \/ \E p \in Vectors \cup {P(1, 2)} : LocationOf("g", p)
    \/ Container("g")
    \/ ElementCall("g")

SpecTransform == InitTransform /\ [][NextTransform]_vars

(***************************************************************************)
(* CompositeItem calls: an outer group g, an inner group h, two leaves.    *)
(***************************************************************************)
List(items) == [kind |-> "list", items |-> items]

\* adding a group to itself or to one of its own descendants makes
\* element() recurse without end; such calls are not made
Add(id, item) ==
    /\ IsGroup(id)
    /\ item \in DOMAIN heap
    /\ ~Holds(heap, item, id)
    /\ Len(calls) < MaxCalls
    /\ Mutate([op |-> "add", target |-> id, args |-> <<item>>, before |-> heap],
              add(heap[id], item), None, TRUE)

Empty(id) ==
    /\ IsGroup(id)
    /\ Len(calls) < MaxCalls
    /\ Mutate([op |-> "empty", target |-> id, args |-> <<>>, before |-> heap],
              empty(heap[id]), None, TRUE)

Children(id) ==
    /\ IsGroup(id)
    /\ Query([op |-> "children", target |-> id, args |-> <<>>, before |-> heap],
             List(children(heap[id])))

NoAttributes == EmptyDict

Leaves ==
    { Rectangle(Int_(3), Int_(4), Int_(1), "black", "None", TRUE, [fill |-> "red"]),
      Line(P(0, 0), P(5, 0), "black", Int_(1), "butt", "4 2", NoAttributes),
      Circle(P(1, 1), Int_(2), NoAttributes) }

InitComposite ==
    /\ \E o \in {Int_(100), Int_(50)}, leaf \in Leaves :
           heap = [g |-> GroupedDrawable(o),
                   h |-> rotate(GroupedDrawable(Int_(100)), Int_(90), Origin),
                   s |-> leaf,
                   pa |-> Path(P(0, 0),
                               <<RelativeVector(Int_(10), Int_(10)),
                                 RelativeVector(Int_(-10), Int_(0))>>,
                               NoAttributes)]
    /\ calls = <<>>
    /\ last = NoCall
    /\ out = Ref("g")
    /\ prev = None

NextComposite ==
    \/ \E id \in {"g", "h"}, item \in {"g", "h", "s", "pa"} : Add(id, item)
    \/ \E id \in {"g", "h"} : Empty(id)
    \/ \E id \in {"g", "h"} : Children(id)
    \/ \E id \in {"g", "h", "s", "pa"} : ElementCall(id)

SpecComposite == InitComposite /\ [][NextComposite]_vars

(***************************************************************************)
(* Shape and segment calls on one object, named s.                         *)
(***************************************************************************)
\* the classes whose __init__ takes **attributes
AcceptsAttributes(cls) == cls \in {"Rectangle", "Line", "Text", "Circle", "Path"}

\* cls(...) with the keyword arguments c.attributes: ABCMeta refuses an
\* abstract class, and an __init__ without **attributes refuses keywords
New(c) ==
    IF ~CanInstantiate(c.cls) THEN Raise("TypeError")
    ELSE IF c.attributes # EmptyDict /\ ~AcceptsAttributes(c.cls) THEN Raise("TypeError")
    ELSE c.obj

InRange(p) == Abs(p.x.h) <= 2 * MaxCoord /\ Abs(p.y.h) <= 2 * MaxCoord

IsSegment(id) ==
    id \in DOMAIN heap /\ heap[id].cls \in {"PathSegment", "RelativeVector", "Arc"}

MoveTo(id, point) ==
    /\ IsSimpleItem(id)
    /\ Mutate([op |-> "move_to", target |-> id, args |-> <<point>>, before |-> heap],
              move_to(heap[id], point), Ref(id), FALSE)

MoveBy(id, point) ==
    /\ IsSimpleItem(id)
    /\ InRange(move_by(heap[id], point).top_left)
    /\ Mutate([op |-> "move_by", target |-> id, args |-> <<point>>, before |-> heap],
              move_by(heap[id], point), Ref(id), FALSE)

SetCenter(id, x, y) ==
    /\ IsA(id, "Rectangle")
    /\ Mutate([op |-> "set_center", target |-> id, args |-> <<x, y>>, before |-> heap],
              set_center(heap[id], x, y), Ref(id), FALSE)

Center(id) ==
    /\ IsA(id, "Rectangle") \/ IsA(id, "Circle")
    /\ Query([op |-> "center", target |-> id, args |-> <<>>, before |-> heap],
             PointValue(IF heap[id].cls = "Rectangle" THEN RectangleCenter(heap[id])
                        ELSE CircleCenter(heap[id])))

SetFill(id, color) ==
    /\ IsA(id, "Rectangle")
    /\ Mutate([op |-> "set_fill", target |-> id, args |-> <<color>>, before |-> heap],
              set_fill(heap[id], color), None, FALSE)

SetEnd(id, point) ==
    /\ IsA(id, "Line")
    /\ Mutate([op |-> "set_end", target |-> id, args |-> <<point>>, before |-> heap],
              set_end(heap[id], point), None, FALSE)

End(id) ==
    /\ IsA(id, "Line")
    /\ Query([op |-> "end", target |-> id, args |-> <<>>, before |-> heap],
             PointValue(LineEnd(heap[id])))

TextRotate(id, angle) ==
    /\ IsA(id, "Text")
    /\ Mutate([op |-> "rotate", target |-> id, args |-> <<angle>>, before |-> heap],
              text_rotate(heap[id], angle), Ref(id), FALSE)

MoveCenterTo(id, point) ==
    /\ IsA(id, "Circle")
    /\ Mutate([op |-> "move_center_to", target |-> id, args |-> <<point>>, before |-> heap],
              move_center_to(heap[id], point), Ref(id), FALSE)

\* path.closed = b, the assignment the constructor's comment asks for
SetClosed(id, b) ==
    /\ IsA(id, "Path")
    /\ Mutate([op |-> "closed=", target |-> id, args |-> <<b>>, before |-> heap],
              [heap[id] EXCEPT !.closed = b], None, FALSE)

Specification(id) ==
    /\ IsSegment(id)
    /\ Query([op |-> "specification", target |-> id, args |-> <<>>, before |-> heap],
             specification(heap[id]))

Scale(id, scale) ==
    /\ IsA(id, "RelativeVector")
    /\ InRange(RelativeVectorScale(heap[id], scale).point)
    /\ Mutate([op |-> "scale", target |-> id, args |-> <<scale>>, before |-> heap],
              RelativeVectorScale(heap[id], scale), Ref(id), FALSE)

Extras == {EmptyDict, [fill |-> "red"], [width |-> "3", id |-> "a"]}

SegmentLists ==
    { <<>>,
      <<RelativeVector(Int_(10), Int_(10)), RelativeVector(Int_(-10), Int_(0))>>,
      <<Arc(Int_(1), Int_(2), Int_(3), Int_(1), Int_(0), Int_(5), Float_(13)),
        RelativeVector(Float_(1), Int_(-1))>> }

\* the constructor calls the object s is made by: the class, the object the
\* class's __init__ builds, the **attributes given, the other arguments.
\* Widths, heights and radii are whole numbers, so their halves are on the grid.
Constructions ==
    {[cls |-> "Rectangle", attributes |-> a, args |-> <<wh[1], wh[2]>>,
      obj |-> Rectangle(wh[1], wh[2], Int_(1), "black", rd[2], rd[1], a)] :
        wh \in {<<Int_(3), Int_(4)>>, <<Int_(4), Int_(2)>>},
        rd \in {<<FALSE, "None">>, <<TRUE, "4 2">>}, a \in Extras}
    \cup
    {[cls |-> "Line", attributes |-> a, args |-> <<st, en>>,
      obj |-> Line(st, en, "black", Int_(1), "butt", "None", a)] :
        st \in {P(1, 2)}, en \in {P(5, 0), Point(Float_(1), Int_(-1))},
        a \in Extras}
    \cup
    {[cls |-> "Text", attributes |-> a, args |-> <<ff>>,
      obj |-> Text("hi", P(1, 2), "black", "start", Int_(8), "normal", ff, a)] :
        ff \in {"None", "serif"}, a \in Extras}
    \cup
    {[cls |-> "Circle", attributes |-> a, args |-> <<>>,
      obj |-> Circle(P(0, 0), Int_(2), a)] : a \in Extras}
    \cup
    {[cls |-> "Image", attributes |-> a, args |-> <<>>,
      obj |-> Image(P(1, 2), "a.png", Int_(3), Int_(4))] : a \in Extras}
    \cup
    {[cls |-> "Dimple", attributes |-> a, args |-> <<>>,
      obj |-> Dimple(P(1, 2), Int_(2))] : a \in Extras}
    \cup
    {[cls |-> "Path", attributes |-> a, args |-> <<segs>>,
      obj |-> Path(P(0, 0), segs, a)] : segs \in SegmentLists, a \in Extras}
    \cup
    {[cls |-> "PathSegment", attributes |-> EmptyDict, args |-> <<>>, obj |-> PathSegment],
     [cls |-> "RelativeVector", attributes |-> EmptyDict, args |-> <<>>,
      obj |-> RelativeVector(Int_(1), Float_(-1))],
     [cls |-> "Arc", attributes |-> EmptyDict, args |-> <<>>,
      obj |-> Arc(Int_(1), Int_(2), Int_(3), Int_(1), Int_(0), Int_(5), Int_(6))]}
    \cup
    {[cls |-> c, attributes |-> EmptyDict, args |-> <<>>, obj |-> None] :
        c \in {"Drawable", "CompositeItem", "SimpleItem"}}

InitShape ==
    \E c \in Constructions :
        /\ heap = IF IsRaise(New(c)) THEN EmptyDict ELSE [s |-> New(c)]
        /\ out = IF IsRaise(New(c)) THEN New(c) ELSE Ref("s")
        /\ last = [op |-> "__init__", target |-> "s",
                   args |-> <<c.cls, c.attributes, c.args>>, before |-> <<>>]
        /\ calls = <<[op |-> "__init__", target |-> "s",
                      args |-> <<c.cls, c.attributes, c.args>>, before |-> <<>>]>>
        /\ prev = None

Points == {P(1, 2), Point(Int_(-2), Float_(1))}

Moves == {P(1, 0), Point(Float_(-1), Int_(1))}

Centers == {<<Int_(0), Int_(0)>>, <<Int_(2), Float_(-3)>>, <<Float_(1), Int_(1)>>}

NextShape ==
    \/ \E p \in Points : MoveTo("s", p)
    \/ \E v \in Moves : MoveBy("s", v)
    \/ \E c \in Centers : SetCenter("s", c[1], c[2])
    \/ Center("s")
    \/ SetFill("s", "blue")
    \/ \E q \in Points \cup {P(0, 0)} : SetEnd("s", q)
    \/ End("s")
    \/ \E a \in {Int_(0), Int_(90)} : TextRotate("s", a)
    \/ \E p \in Points : MoveCenterTo("s", p)
    \/ \E b \in BOOLEAN : SetClosed("s", b)
    \/ Specification("s")
    \/ Scale("s", Int_(2))
    \/ ElementCall("s")

SpecShape == InitShape /\ [][NextShape]_vars

(***************************************************************************)
(* Properties of the transformation list (checked under SpecTransform).    *)
(***************************************************************************)
\* the transform a logged rotate or move_to call stands for
TransformOfCall(c) ==
    IF c.op = "rotate" THEN Rotation(c.args[1], c.args[2]) ELSE Translation(c.args[1])

\* the rotate and move_to calls made on group id, in call order
TransformCalls(id) ==
    SelectSeq(calls, LAMBDA c : c.target = id /\ c.op \in {"rotate", "move_to"})

RECURSIVE TextsUpTo(_, _)
\* the texts of the first n logged calls, each followed by one space
TextsUpTo(cs, n) ==
    IF n = 0 THEN ""
    ELSE TextsUpTo(cs, n - 1) \o TransformText(TransformOfCall(cs[n])) \o " "

\* C1: every rotate and move_to call on a group appends exactly one
\* transform (a Rotation for rotate, a Translation for move_to) and leaves
\* the earlier entries where they were, so the list is the calls' transforms
\* in call order, and container()'s transform attribute is their text()
\* joined by single spaces.
C1_TransformsAreTheCallsInOrder ==
    LET T == heap["g"].transformations
        cs == TransformCalls("g")
    IN  /\ Len(T) = Len(cs)
        /\ \A i \in 1..Len(T) : T[i] = TransformOfCall(cs[i])
        /\ last.op \in {"rotate", "move_to"} =>
               /\ T = Append(last.before["g"].transformations, TransformOfCall(last))
               /\ last.op = "rotate" => T[Len(T)].cls = "Rotation"
               /\ last.op = "move_to" => T[Len(T)].cls = "Translation"
        /\ (last.op = "container" /\ Len(cs) > 0) =>
               out.attrib["transform"] \o " " = TextsUpTo(cs, Len(cs))

C1_Witness ==
    /\ last.op = "container"
    /\ Len(calls) = 2
    /\ calls[1].op = "rotate" /\ calls[1].args = <<Int_(90), Origin>>
    /\ calls[2].op = "move_to" /\ calls[2].args = <<P(5, 5)>>
    /\ out.attrib["transform"]
         = "rotate(90.000000,0.000000,0.000000) translate(5.000000,5.000000)"

RECURSIVE Nested(_, _, _)
\* tn.transform(... t2.transform(t1.transform(p)) ...) for the first n entries
Nested(T, n, p) ==
    IF n = 0 THEN p ELSE TransformApply(T[n], Nested(T, n - 1, p))

\* C2: location_of(p) is the transforms applied to p in list order, the
\* first appended first (p itself for an empty list), and the call changes
\* neither the caller's point nor the group.
C2_LocationOfIsTheFold ==
    last.op = "location_of" =>
        LET T == heap[last.target].transformations
        IN  /\ out = PointValue(Nested(T, Len(T), last.args[2]))
            /\ last.args[1] = last.args[2]
            /\ heap = last.before

C2_Witness ==
    /\ last.op = "location_of"
    /\ Len(heap["g"].transformations) = 2
    /\ heap["g"].transformations[1].cls = "Rotation"
    /\ heap["g"].transformations[2].cls = "Translation"
    /\ last.args[2] = P(1, 2)
    /\ PointEq(out.p, P(3, 6))

\* C4: in every state the node container() builds carries a transform
\* attribute exactly when the transformation list is not empty and an
\* opacity attribute exactly when opacity is not 100.
C4_AttributesOnlyWhenSet ==
    /\ \A id \in DOMAIN heap :
           heap[id].cls = "GroupedDrawable" =>
               LET node == container(heap[id])
               IN  /\ "transform" \in DOMAIN node.attrib
                        <=> heap[id].transformations # <<>>
                   /\ "opacity" \in DOMAIN node.attrib
                        <=> ~NumEq(heap[id].opacity, Int_(100))
    /\ last.op = "container" =>
           /\ "transform" \in DOMAIN out.attrib
                <=> heap[last.target].transformations # <<>>
           /\ "opacity" \in DOMAIN out.attrib
                <=> ~NumEq(heap[last.target].opacity, Int_(100))

C4_Witness ==
    /\ last.op = "container"
    /\ heap["g"].opacity = Int_(100)
    /\ heap["g"].transformations = <<>>
    /\ out.attrib = EmptyDict

(***************************************************************************)
(* Properties of the child list (checked under SpecComposite).             *)
(***************************************************************************)
RECURSIVE AddedSinceEmpty(_, _, _)
\* the items the first n logged calls leave in group id: each add() puts
\* its item last, each empty() starts over
AddedSinceEmpty(cs, n, id) ==
    IF n = 0 THEN <<>>
    ELSE IF cs[n].target # id THEN AddedSinceEmpty(cs, n - 1, id)
    ELSE IF cs[n].op = "empty" THEN <<>>
    ELSE IF cs[n].op = "add" THEN Append(AddedSinceEmpty(cs, n - 1, id), cs[n].args[1])
    ELSE AddedSinceEmpty(cs, n - 1, id)

\* C3: children() is the items added since the latest empty() (or since
\* construction), in insertion order, duplicates kept; element() is the
\* container() node with the element() of each child appended in that
\* order; after empty() the group has no children.
C3_ChildrenAreTheAddsInOrder ==
    /\ \A id \in {"g", "h"} :
           children(heap[id]) = AddedSinceEmpty(calls, Len(calls), id)
    /\ last.op = "children" =>
           out = List(AddedSinceEmpty(calls, Len(calls), last.target))
    /\ last.op = "empty" => children(heap[last.target]) = <<>>
    /\ (last.op = "element" /\ heap[last.target].cls = "GroupedDrawable") =>
           LET ids == AddedSinceEmpty(calls, Len(calls), last.target)
           IN  /\ out.kind = "Element"
               /\ [out EXCEPT !.children = <<>>] = container(heap[last.target])
               /\ Len(out.children) = Len(ids)
               /\ \A i \in 1..Len(ids) : out.children[i] = element(heap, ids[i])

C3_Witness ==
    /\ last.op = "element" /\ last.target = "g"
    /\ Len(calls) = 3
    /\ calls[1].op = "add" /\ calls[1].target = "h"
    /\ heap["g"]._children = <<"h", "h">>
    /\ Len(out.children) = 2
    /\ Len(out.children[1].children) = 1
    /\ out.children[1] = out.children[2]

Constructed == calls[1].args

RECURSIVE SpecsJoined(_, _)
\* the specifications of the first n segments with one space between them
SpecsJoined(segs, n) ==
    IF n = 0 THEN ""
    ELSE IF n = 1 THEN specification(segs[1]).s
    ELSE SpecsJoined(segs, n - 1) \o " " \o specification(segs[n]).s

\* C6: a Path's d attribute is "M " + start.format() + " ", then the
\* segments' specification() strings in construction order with single
\* spaces between them, then " Z" exactly when closed; element() leaves the
\* segment sequence as it was constructed.
C6_PathDataIsTheSegmentsInOrder ==
    (last.op = "element" /\ heap[last.target].cls = "Path") =>
        LET pa == heap[last.target]
            d == out.attrib["d"]
        IN  /\ out.kind = "Element"
            /\ d = "M " \o PointFormat(pa.top_left) \o " "
                   \o SpecsJoined(pa.segments, Len(pa.segments))
                   \o (IF pa.closed THEN " Z" ELSE "")
            /\ pa.closed => SubSeq(d, Len(d) - 1, Len(d)) = " Z"
            /\ ~pa.closed => SubSeq(d, Len(d), Len(d)) # "Z"
            /\ pa.segments = last.before[last.target].segments
            /\ pa.segments = Constructed[3][1]

C6_Witness ==
    /\ last.op = "element"
    /\ heap[last.target].cls = "Path"
    /\ ~heap[last.target].closed
    /\ Len(heap[last.target].segments) = 2
    /\ out.attrib["d"] = "M 0,0 l 10,10  l -10,0 "

\* C7: element(), specification() or container() invoked on an object
\* whose class has left that method abstract ends in an error; it never
\* returns.
C7_AbstractCallsFail ==
    (/\ last.op \in {"element", "specification", "container"}
     /\ last.target \in DOMAIN heap
     /\ last.op \in AbstractMethods(heap[last.target].cls))
        => IsRaise(out)

ShapeClasses == {"Rectangle", "Line", "Text", "Circle", "Image", "Dimple", "Path"}

\* C8: every shape primitive takes extra attributes at construction, and
\* element() puts every one of them on the node it returns.
C8_ExtraAttributesReachTheNode ==
    Constructed[1] \in ShapeClasses =>
        /\ last.op = "__init__" => ~IsRaise(out)
        /\ last.op = "element" =>
               LET given == IF "_attributes" \in DOMAIN heap[last.target]
                            THEN heap[last.target]._attributes
                            ELSE Constructed[2]
               IN  /\ out.kind = "Element"
                   /\ \A k \in DOMAIN given :
                          k \in DOMAIN out.attrib /\ out.attrib[k] = given[k]

====
